---------------------------- MODULE Spec2Model ----------------------------
(***************************************************************************)
(* Model of the Markdown <-> Plate JSON converter.                         *)
(*                                                                         *)
(*   src/converter.ts          convertMarkdownToPlateJSON, enrichPlateJSON,*)
(*                             checkMatch, restoreLinkReference            *)
(*   src/custom-serializer.ts  serializeToMarkdown and its helpers         *)
(*                                                                         *)
(* Encoding of JavaScript values.                                          *)
(*   - a string is a sequence of one-character strings ('' is << >>);      *)
(*   - an object is a record; an absent property is an absent field, so    *)
(*     ("text" in node)  is  "text" \in DOMAIN node;                       *)
(*   - the value undefined, where it is compared with a string, is the     *)
(*     token Undefined, which no string of the model equals;               *)
(*   - the property checked holds "true", "false" or "null" (TLC cannot    *)
(*     compare a boolean with another kind of value), so                   *)
(*     typeof x === "boolean" is  x \in {"true", "false"};                 *)
(*   - a Map is a function from its keys.                                  *)
(***************************************************************************)
EXTENDS Integers, Sequences, FiniteSets, TLC

VARIABLES
    pc,              \* position in convertMarkdownToPlateJSON / serializeToMarkdown
    markdownContent, \* the class of source text handed to both parsers
    plateJSON,       \* the tree returned by deserializeMd, mutated in place
    mdast,           \* the root node returned by processor.parse
    definitions,     \* Map identifier -> url
    stack,           \* activation records of enrichPlateJSON, innermost last
    warned,          \* console.warn was called by the catch block
    thrown,          \* history: an error was thrown inside the try block
    plate0,          \* history: plateJSON as deserializeMd returned it
    mdast0,          \* history: mdast as processor.parse returned it
    log,             \* history: the match and insert events of the walk
    nodes,           \* argument of serializeToMarkdown
    markdown         \* its result

vars == << pc, markdownContent, plateJSON, mdast, definitions, stack, warned,
           thrown, plate0, mdast0, log, nodes, markdown >>

-----------------------------------------------------------------------------
(* Bounds of the model *)

MaxTree == 2
MaxAst == 2
MaxText == 2
MaxLines == 2
MaxRows == 2
MaxCols == 3
MaxDepth == 2
MaxItems == 2

-----------------------------------------------------------------------------
(* Generic helpers *)

Undefined == << "undefined" >>

Get(node, f) == IF f \in DOMAIN node THEN node[f] ELSE Undefined

SeqsUpTo(S, n) == UNION { [1..k -> S] : k \in 0..n }

NonEmptySeqsUpTo(S, n) == UNION { [1..k -> S] : k \in 1..n }

\* Array.prototype.splice(at, del, ...items) on a copy of s
Splice(s, at, del, items) ==
    SubSeq(s, 1, at - 1) \o items \o SubSeq(s, at + del, Len(s))

\* the children array reached from a root array by a path of 1-based indices
RECURSIVE SeqAt(_, _)
SeqAt(root, path) ==
    IF path = << >> THEN root
    ELSE SeqAt(root[Head(path)].children, Tail(path))

\* the root array with the children array at path replaced
RECURSIVE PutSeq(_, _, _)
PutSeq(root, path, new) ==
    IF path = << >> THEN new
    ELSE [root EXCEPT ![Head(path)] =
            [root[Head(path)] EXCEPT
                !.children = PutSeq(root[Head(path)].children, Tail(path), new)]]

\* obj with property f set to v (added when absent)
SetField(obj, f, v) ==
    [k \in DOMAIN obj \cup {f} |-> IF k = f THEN v ELSE obj[k]]

-----------------------------------------------------------------------------
(* src/converter.ts: the match rule and the reconstruction rule *)

\* node.type, for a node that may have no type (a text leaf)
TypeOf(node) == IF "type" \in DOMAIN node THEN node.type ELSE "undefined"

\* definitions.get(identifier)
MapGet(map, key) == IF key \in DOMAIN map THEN map[key] ELSE Undefined

\* definitions.set(identifier, url)
MapSet(map, key, value) ==
    [k \in DOMAIN map \cup {key} |-> IF k = key THEN value ELSE map[k]]

\* mNode.ordered as a condition
IsOrdered(mNode) == "ordered" \in DOMAIN mNode /\ mNode.ordered

HeadingDepth(mNode) == IF "depth" \in DOMAIN mNode THEN mNode.depth ELSE 0

\* the url the a-branch of checkMatch compares pNode.url with
MatchUrl(mNode, defs) ==
    IF mNode.type = "linkReference"
    THEN MapGet(defs, Get(mNode, "identifier"))
    ELSE Get(mNode, "url")

checkMatch(pNode, mNode, defs) ==
    LET pt == TypeOf(pNode)
        mt == TypeOf(mNode)
    IN  \/ pt = "li" /\ mt = "listItem"
        \/ pt = "ul" /\ mt = "list" /\ ~IsOrdered(mNode)
        \/ pt = "ol" /\ mt = "list" /\ IsOrdered(mNode)
        \/ pt = "table" /\ mt = "table"
        \/ pt = "lic" /\ mt = "paragraph"
        \/ pt = "p" /\ mt = "paragraph"
        \/ pt = "h1" /\ mt = "heading" /\ HeadingDepth(mNode) = 1
        \/ pt = "h2" /\ mt = "heading" /\ HeadingDepth(mNode) = 2
        \/ pt = "h3" /\ mt = "heading" /\ HeadingDepth(mNode) = 3
        \/ pt = "h4" /\ mt = "heading" /\ HeadingDepth(mNode) = 4
        \/ pt = "h5" /\ mt = "heading" /\ HeadingDepth(mNode) = 5
        \/ pt = "h6" /\ mt = "heading" /\ HeadingDepth(mNode) = 6
        \/ pt = "blockquote" /\ mt = "blockquote"
        \/ pt = "code_block" /\ mt = "code"
        \/ pt = "hr" /\ mt = "thematicBreak"
        \/ pt = "img" /\ mt \in {"image", "imageReference"}
        \/ /\ pt = "a"
           /\ mt \in {"link", "linkReference"}
           /\ Get(pNode, "url") = MatchUrl(mNode, defs)
        \/ /\ ~(pt = "a" /\ mt \in {"link", "linkReference"})
           /\ "text" \in DOMAIN pNode
           /\ mt = "text"

\* one child of a linkReference as a slate text
RestoredChild(c) ==
    IF TypeOf(c) = "text" THEN [text |-> c.value] ELSE [text |-> << >>]

\* definitions.get(identifier) || ''
RestoredUrl(mNode, defs) ==
    LET u == MapGet(defs, Get(mNode, "identifier"))
    IN  IF u = Undefined \/ u = << >> THEN << >> ELSE u

restoreLinkReference(mNode, defs) ==
    [type |-> "a",
     url |-> RestoredUrl(mNode, defs),
     children |->
        IF "children" \in DOMAIN mNode
        THEN [i \in 1..Len(mNode.children) |-> RestoredChild(mNode.children[i])]
        ELSE << [text |-> << >>] >>]

\* bug variant: the scan does not descend into node.children
visitDefinitions_NoChildren(node, defs) ==
    IF TypeOf(node) = "definition"
    THEN MapSet(defs, node.identifier, node.url)
    ELSE defs

\* the definitions scan of convertMarkdownToPlateJSON, pre-order
RECURSIVE visitDefinitions(_, _)
RECURSIVE visitEach(_, _)
visitDefinitions(node, defs) ==
    LET d1 == IF TypeOf(node) = "definition"
              THEN MapSet(defs, node.identifier, node.url)
              ELSE defs
    IN  IF "children" \in DOMAIN node THEN visitEach(node.children, d1) ELSE d1

visitEach(children, defs) ==
    IF children = << >> THEN defs
    ELSE visitEach(Tail(children), visitDefinitions(Head(children), defs))

-----------------------------------------------------------------------------
(* The two external parsers: what deserializeMd and processor.parse may     *)
(* return for a source text of each class.  Both read the same text.        *)

MarkdownTexts == {"paragraph", "list", "blocks"}

Leaf(t) == [text |-> t]
MText(v) == [type |-> "text", value |-> v]

\* inline nodes of the tree
PlateInlines ==
    { Leaf(<< "t" >>),
      [type |-> "a", url |-> << "x" >>, children |-> << Leaf(<< "k" >>) >>],
      [type |-> "a", url |-> << >>, children |-> << Leaf(<< "u" >>) >>] }

\* inline nodes of the AST
MdInlines ==
    { MText(<< "g", "o" >>),
      [type |-> "linkReference", identifier |-> "ref1",
       children |-> << MText(<< "g", "o" >>) >>],
      [type |-> "linkReference", identifier |-> "ref2",
       children |-> << [type |-> "emphasis", children |-> << MText(<< "e" >>) >>],
                       MText(<< "m" >>) >>],
      [type |-> "link", url |-> << "x" >>, children |-> << MText(<< "k" >>) >>],
      [type |-> "strong",
       children |-> << [type |-> "emphasis", children |-> << MText(<< "b" >>) >>] >>],
      [type |-> "emphasis",
       children |-> << [type |-> "linkReference", identifier |-> "ref1",
                        children |-> << MText(<< "r" >>) >>] >>],
      [type |-> "delete"],
      [type |-> "strong", children |-> << >>],
      [type |-> "linkReference", identifier |-> "ref1", children |-> << >>],
      [type |-> "linkReference", identifier |-> "ref1"] }

MdDefinition == [type |-> "definition", identifier |-> "ref1", url |-> << "x" >>]

PlateLic == [type |-> "lic", children |-> << Leaf(<< "i" >>) >>]
MdItemParagraph == [type |-> "paragraph", children |-> << MText(<< "i" >>) >>]

\* list items of the tree: as deserialized, or already carrying a checkbox
PlateItems ==
    { [type |-> "li", children |-> << PlateLic >>],
      [type |-> "li", checked |-> "false", children |-> << PlateLic >>] }

\* list items of the AST: task items, and items that are no task items
MdItems ==
    { [type |-> "listItem", checked |-> "true", children |-> << MdItemParagraph >>],
      [type |-> "listItem", checked |-> "false", children |-> << MdItemParagraph >>],
      [type |-> "listItem", checked |-> "null", children |-> << MdItemParagraph >>],
      [type |-> "listItem", children |-> << MdItemParagraph >>] }

PlateCell == [type |-> "td", children |-> << Leaf(<< "c" >>) >>]
PlateRow == [type |-> "tr", children |-> << PlateCell >>]
MdCell == [type |-> "tableCell", children |-> << MText(<< "c" >>) >>]
MdRow == [type |-> "tableRow", children |-> << MdCell >>]

\* top-level blocks of the tree
PlateBlocks ==
    { [type |-> "p", children |-> << Leaf(<< "t" >>), Leaf(<< "s" >>) >>],
      [type |-> "h2", children |-> << Leaf(<< "h" >>) >>],
      [type |-> "ul", children |-> << [type |-> "li", children |-> << PlateLic >>] >>],
      [type |-> "table", children |-> << PlateRow >>] }

\* top-level blocks of the AST
MdBlocks ==
    { [type |-> "paragraph",
       children |-> << MText(<< "t" >>),
                       [type |-> "linkReference", identifier |-> "ref1",
                        children |-> << MText(<< "g", "o" >>) >>],
                       MText(<< "s" >>) >>],
      [type |-> "heading", depth |-> 2,
       children |-> << MText(<< "h" >>),
                       [type |-> "linkReference", identifier |-> "ref1",
                        children |-> << MText(<< "g", "o" >>) >>] >>],
      [type |-> "list", ordered |-> FALSE,
       children |-> << [type |-> "listItem", checked |-> "true",
                        children |-> << MdItemParagraph >>] >>],
      [type |-> "table", align |-> << "center", "null" >>, children |-> << MdRow >>],
      MdDefinition,
      [type |-> "blockquote", children |-> << MdDefinition >>] }

\* deserializeMd(editor, markdownContent, ...)
deserializeMd(text) ==
    CASE text = "paragraph" ->
            { << [type |-> "p", children |-> c] >> : c \in SeqsUpTo(PlateInlines, MaxTree) }
      [] text = "list" ->
            { << [type |-> "ul", children |-> c] >> : c \in NonEmptySeqsUpTo(PlateItems, MaxTree) }
      [] text = "blocks" -> SeqsUpTo(PlateBlocks, MaxTree)

\* processor.parse(markdownContent)
parse(text) ==
    { [type |-> "root", children |-> r] : r \in
        CASE text = "paragraph" ->
                { << [type |-> "paragraph", children |-> c], MdDefinition >> :
                    c \in SeqsUpTo(MdInlines, MaxAst) }
          [] text = "list" ->
                { << [type |-> "list", ordered |-> FALSE, children |-> c] >> :
                    c \in NonEmptySeqsUpTo(MdItems, MaxAst) }
          [] text = "blocks" -> SeqsUpTo(MdBlocks, MaxAst) }

-----------------------------------------------------------------------------
(* src/converter.ts: enrichPlateJSON, one action per branch of its loop.    *)
(* A frame is one activation of enrichPlateJSON: plateNodes and mdNodes are *)
(* the arrays at the paths pp and mp; pIndex and mIndex are 0-based.        *)

Top == stack[Len(stack)]
plateNodes == SeqAt(plateJSON, Top.pp)
mdNodes == SeqAt(mdast.children, Top.mp)
pNode == plateNodes[Top.pIndex + 1]
mNode == mdNodes[Top.mIndex + 1]

InLoop == pc = "enrich" /\ stack # << >> /\ Top.mIndex < Len(mdNodes)
OutOfPlate == Top.pIndex >= Len(plateNodes)
IsWrapper(n) == TypeOf(n) \in {"strong", "emphasis", "delete"}
IsMetadata(n) == TypeOf(n) \in {"definition", "yaml"}
Comparing == InLoop /\ ~OutOfPlate /\ ~IsWrapper(mNode) /\ ~IsMetadata(mNode)

Advance(dp, dm) ==
    stack' = [stack EXCEPT ![Len(stack)] =
                [@ EXCEPT !.pIndex = @ + dp, !.mIndex = @ + dm]]

\* bug variant: a skip moves both cursors
SkipAstNode_Both == Advance(1, 1)

\* lines 82, 96, 102, 149: mIndex++ alone
SkipAstNode == Advance(0, 1)

\* plateNodes.push(restored)
PushRestored(pNodes, restored) == Append(pNodes, restored)

\* bug variant: the restored node is spliced in behind the current tree node
InsertRestored_After(pNodes, pIndex, restored) ==
    Splice(pNodes, pIndex + 2, 0, << restored >>)

\* bug variant: splice(pIndex, 1, restored) overwrites the current tree node
InsertRestored_Overwrite(pNodes, pIndex, restored) ==
    Splice(pNodes, pIndex + 1, 1, << restored >>)

\* plateNodes.splice(pIndex, 0, restored)
InsertRestored(pNodes, pIndex, restored) == Splice(pNodes, pIndex + 1, 0, << restored >>)

\* bug variant: the wrapper is left where it is
UnwrapInline_KeepWrapper(mNodes, mIndex) == mNodes

\* mdNodes.splice(mIndex, 1, ...mNode.children)
UnwrapInline(mNodes, mIndex) ==
    Splice(mNodes, mIndex + 1, 1, mNodes[mIndex + 1].children)

\* bug variant: checked is copied without the typeof test, null becoming false
MapProperties_Unguarded(p, m) ==
    IF TypeOf(p) = "li" /\ TypeOf(m) = "listItem"
    THEN SetField(p, "checked",
                  IF "checked" \in DOMAIN m /\ m.checked = "true" THEN "true" ELSE "false")
    ELSE IF TypeOf(p) = "table" /\ TypeOf(m) = "table" /\ "align" \in DOMAIN m
    THEN SetField(p, "align", m.align)
    ELSE p

\* the property mapping of a matched pair
MapProperties(p, m) ==
    IF TypeOf(p) = "li" /\ TypeOf(m) = "listItem"
    THEN IF "checked" \in DOMAIN m /\ m.checked \in {"true", "false"}
         THEN SetField(p, "checked", m.checked)
         ELSE p
    ELSE IF TypeOf(p) = "table" /\ TypeOf(m) = "table"
    THEN IF "align" \in DOMAIN m
         THEN SetField(p, "align", m.align)
         ELSE p
    ELSE p

MatchEvent(before) ==
    [kind |-> "match", pp |-> Top.pp, p |-> Top.pIndex, before |-> before, mNode |-> mNode]

InsertEvent ==
    [kind |-> "insert", pp |-> Top.pp, p |-> Top.pIndex, len |-> Len(plateNodes),
     mNode |-> mNode]

Frame == << mdast0, plate0, markdownContent, definitions, warned, thrown, nodes, markdown >>

\* lines 71-80: the tree ran out and the AST node is a linkReference
RestoreAtEnd ==
    /\ InLoop /\ OutOfPlate
    /\ TypeOf(mNode) = "linkReference"
    /\ plateJSON' = PutSeq(plateJSON, Top.pp,
                       PushRestored(plateNodes, restoreLinkReference(mNode, definitions)))
    /\ Advance(1, 1)
    /\ log' = Append(log, InsertEvent)
    /\ UNCHANGED << pc, mdast >>
    /\ UNCHANGED Frame

\* lines 71-83: the tree ran out and the AST node is anything else
SkipAtEnd ==
    /\ InLoop /\ OutOfPlate
    /\ TypeOf(mNode) # "linkReference"
    /\ SkipAstNode
    /\ UNCHANGED << pc, plateJSON, mdast, log >>
    /\ UNCHANGED Frame

\* lines 90-94: an inline style wrapper is replaced by its children
Unwrap ==
    /\ InLoop /\ ~OutOfPlate
    /\ IsWrapper(mNode)
    /\ "children" \in DOMAIN mNode
    /\ mdast' = [mdast EXCEPT !.children =
                    PutSeq(mdast.children, Top.mp, UnwrapInline(mdNodes, Top.mIndex))]
    /\ UNCHANGED << pc, plateJSON, stack, log >>
    /\ UNCHANGED Frame

\* lines 90-97: a wrapper with no children array
SkipWrapper ==
    /\ InLoop /\ ~OutOfPlate
    /\ IsWrapper(mNode)
    /\ ~("children" \in DOMAIN mNode)
    /\ SkipAstNode
    /\ UNCHANGED << pc, plateJSON, mdast, log >>
    /\ UNCHANGED Frame

\* lines 101-104
SkipMetadata ==
    /\ InLoop /\ ~OutOfPlate
    /\ ~IsWrapper(mNode)
    /\ IsMetadata(mNode)
    /\ SkipAstNode
    /\ UNCHANGED << pc, plateJSON, mdast, log >>
    /\ UNCHANGED Frame

\* lines 109-130: a match; the recursive call is a new frame, and the two
\* increments of lines 129-130 follow its return (Return below)
Match ==
    /\ Comparing
    /\ checkMatch(pNode, mNode, definitions)
    /\ plateJSON' = PutSeq(plateJSON, Top.pp,
                       [plateNodes EXCEPT ![Top.pIndex + 1] = MapProperties(pNode, mNode)])
    /\ log' = Append(log, MatchEvent(pNode))
    /\ IF "children" \in DOMAIN pNode /\ "children" \in DOMAIN mNode
       THEN stack' = Append(stack, [pp |-> Top.pp \o << Top.pIndex + 1 >>,
                                    mp |-> Top.mp \o << Top.mIndex + 1 >>,
                                    pIndex |-> 0, mIndex |-> 0])
       ELSE Advance(1, 1)
    /\ UNCHANGED << pc, mdast >>
    /\ UNCHANGED Frame

\* lines 136-145: a mismatch on a linkReference
InsertLinkReference ==
    /\ Comparing
    /\ ~checkMatch(pNode, mNode, definitions)
    /\ TypeOf(mNode) = "linkReference"
    /\ plateJSON' = PutSeq(plateJSON, Top.pp,
                       InsertRestored(plateNodes, Top.pIndex,
                                      restoreLinkReference(mNode, definitions)))
    /\ Advance(1, 1)
    /\ log' = Append(log, InsertEvent)
    /\ UNCHANGED << pc, mdast >>
    /\ UNCHANGED Frame

\* lines 148-149: any other mismatch
SkipMismatch ==
    /\ Comparing
    /\ ~checkMatch(pNode, mNode, definitions)
    /\ TypeOf(mNode) # "linkReference"
    /\ SkipAstNode
    /\ UNCHANGED << pc, plateJSON, mdast, log >>
    /\ UNCHANGED Frame

\* line 69 false: the loop ends and the activation returns, to line 129 of
\* its caller or to line 55 of convertMarkdownToPlateJSON
Return ==
    /\ pc = "enrich" /\ stack # << >>
    /\ Top.mIndex >= Len(mdNodes)
    /\ IF Len(stack) = 1
       THEN /\ stack' = << >>
            /\ pc' = "done"
       ELSE /\ stack' = [SubSeq(stack, 1, Len(stack) - 1) EXCEPT ![Len(stack) - 1] =
                            [@ EXCEPT !.pIndex = @ + 1, !.mIndex = @ + 1]]
            /\ pc' = pc
    /\ UNCHANGED << plateJSON, mdast, log >>
    /\ UNCHANGED Frame

-----------------------------------------------------------------------------
(* src/converter.ts: enrichPlateJSON as a function from its arguments to the *)
(* plateNodes array it leaves behind, for calls other than the one the       *)
(* actions above perform.                                                    *)

\* the loop of lines 69-151 from the cursors pIndex and mIndex (0-based) on
RECURSIVE WalkFrom(_, _, _, _, _)
WalkFrom(pNodes, mNodes, pIndex, mIndex, defs) ==
    IF mIndex >= Len(mNodes) THEN pNodes
    ELSE
    LET m == mNodes[mIndex + 1]
    IN  IF pIndex >= Len(pNodes)
        THEN IF TypeOf(m) = "linkReference"
             THEN WalkFrom(PushRestored(pNodes, restoreLinkReference(m, defs)), mNodes,
                           pIndex + 1, mIndex + 1, defs)
             ELSE WalkFrom(pNodes, mNodes, pIndex, mIndex + 1, defs)
        ELSE IF IsWrapper(m)
        THEN IF "children" \in DOMAIN m
             THEN WalkFrom(pNodes, UnwrapInline(mNodes, mIndex), pIndex, mIndex, defs)
             ELSE WalkFrom(pNodes, mNodes, pIndex, mIndex + 1, defs)
        ELSE IF IsMetadata(m)
        THEN WalkFrom(pNodes, mNodes, pIndex, mIndex + 1, defs)
        ELSE
        LET p == pNodes[pIndex + 1]
        IN  IF checkMatch(p, m, defs)
            THEN LET mapped == MapProperties(p, m)
                     enriched ==
                        IF "children" \in DOMAIN p /\ "children" \in DOMAIN m
                        THEN [mapped EXCEPT
                                !.children = WalkFrom(p.children, m.children, 0, 0, defs)]
                        ELSE mapped
                 IN  WalkFrom([pNodes EXCEPT ![pIndex + 1] = enriched], mNodes,
                              pIndex + 1, mIndex + 1, defs)
            ELSE IF TypeOf(m) = "linkReference"
            THEN WalkFrom(InsertRestored(pNodes, pIndex, restoreLinkReference(m, defs)),
                          mNodes, pIndex + 1, mIndex + 1, defs)
            ELSE WalkFrom(pNodes, mNodes, pIndex, mIndex + 1, defs)

enrichPlateJSON(pNodes, mNodes, defs) == WalkFrom(pNodes, mNodes, 0, 0, defs)

-----------------------------------------------------------------------------
(* src/converter.ts: convertMarkdownToPlateJSON *)

EmptyMap == [k \in {} |-> << >>]
NoRoot == [type |-> "root", children |-> << >>]

\* line 35
Parse ==
    /\ pc = "parse"
    /\ \E r \in parse(markdownContent) :
          /\ mdast' = r
          /\ mdast0' = r
    /\ pc' = "scan"
    /\ UNCHANGED << markdownContent, plateJSON, definitions, stack, warned, thrown,
                    plate0, log, nodes, markdown >>

\* lines 38-48, and the call of line 50
CollectDefinitions ==
    /\ pc = "scan"
    /\ definitions' = visitDefinitions(mdast, EmptyMap)
    /\ stack' = << [pp |-> << >>, mp |-> << >>, pIndex |-> 0, mIndex |-> 0] >>
    /\ pc' = "enrich"
    /\ UNCHANGED << markdownContent, plateJSON, mdast, warned, thrown, plate0, mdast0,
                    log, nodes, markdown >>

\* bug variant: the catch block warns and rethrows
CatchBlock_Rethrow ==
    /\ warned' = TRUE
    /\ pc' = "propagated"

\* lines 51-53: what the catch block does with an error thrown in the try
CatchBlock ==
    /\ warned' = TRUE
    /\ pc' = "done"

\* an error thrown by the parse, the scan or the walk; the activations of
\* enrichPlateJSON are unwound and line 55 returns plateJSON
Throw ==
    /\ pc \in {"parse", "scan", "enrich"}
    /\ thrown' = TRUE
    /\ CatchBlock
    /\ stack' = << >>
    /\ UNCHANGED << markdownContent, plateJSON, mdast, definitions, plate0, mdast0,
                    log, nodes, markdown >>

Init ==
    /\ markdownContent \in MarkdownTexts
    /\ plateJSON \in deserializeMd(markdownContent)
    /\ plate0 = plateJSON
    /\ mdast = NoRoot
    /\ mdast0 = NoRoot
    /\ definitions = EmptyMap
    /\ stack = << >>
    /\ warned = FALSE
    /\ thrown = FALSE
    /\ log = << >>
    /\ pc = "parse"
    /\ nodes = << >>
    /\ markdown = << >>

Next ==
    \/ Parse
    \/ CollectDefinitions
    \/ RestoreAtEnd
    \/ SkipAtEnd
    \/ Unwrap
    \/ SkipWrapper
    \/ SkipMetadata
    \/ Match
    \/ InsertLinkReference
    \/ SkipMismatch
    \/ Return
    \/ Throw

Spec == Init /\ [][Next]_vars

\* the statements of enrichPlateJSON: every step of the walk but the throw
\* of an error
Walk ==
    \/ RestoreAtEnd
    \/ SkipAtEnd
    \/ Unwrap
    \/ SkipWrapper
    \/ SkipMetadata
    \/ Match
    \/ InsertLinkReference
    \/ SkipMismatch
    \/ Return

\* enrichPlateJSON is a synchronous call on one thread: while one of its
\* statements can run, one does
LiveSpec == Spec /\ WF_vars(Walk)

-----------------------------------------------------------------------------
(* src/custom-serializer.ts, on strings as sequences of characters *)

NL == "\n"
BS == "\\"
\* the grave accent U+0060, which a string literal of the module cannot hold
BT == "GRAVE"

\* the strings of seqs joined with sep: Array.prototype.join
RECURSIVE Join(_, _)
Join(seqs, sep) ==
    IF seqs = << >> THEN << >>
    ELSE IF Len(seqs) = 1 THEN seqs[1]
    ELSE seqs[1] \o sep \o Join(Tail(seqs), sep)

\* the strings of seqs concatenated: join("")
Concat(seqs) == Join(seqs, << >>)

\* str.split("\n"): the empty string gives one empty line
RECURSIVE SplitFrom(_, _, _)
SplitFrom(str, i, cur) ==
    IF i > Len(str) THEN << cur >>
    ELSE IF str[i] = NL THEN << cur >> \o SplitFrom(str, i + 1, << >>)
    ELSE SplitFrom(str, i + 1, Append(cur, str[i]))

SplitLines(str) == SplitFrom(str, 1, << >>)

\* str.repeat(n)
RECURSIVE Repeat(_, _)
Repeat(str, n) == IF n <= 0 THEN << >> ELSE str \o Repeat(str, n - 1)

\* the decimal digits of a positive index, as the template literal prints it
RECURSIVE Digits(_)
Digits(n) ==
    IF n < 10 THEN << ToString(n) >>
    ELSE Digits(n \div 10) \o << ToString(n % 10) >>

\* node.f as a condition, for a boolean mark
Truthy(node, f) == f \in DOMAIN node /\ node[f]

\* element.f || "", for a string property
StringOr(node, f) == IF f \in DOMAIN node THEN node[f] ELSE << >>

SpecialChars == {"*", "_", "[", "]"}

\* bug variant: the character class misses the closing bracket
EscapeText_NoBracket(text) ==
    Concat([i \in 1..Len(text) |->
              IF text[i] \in {"*", "_", "["} THEN << BS, text[i] >> ELSE << text[i] >>])

\* text.replace(/([*_[\]])/g, "\\$1")
EscapeText(text) ==
    Concat([i \in 1..Len(text) |->
              IF text[i] \in SpecialChars THEN << BS, text[i] >> ELSE << text[i] >>])

Wrap(on, w, text) == IF on THEN w \o text \o w ELSE text

serializeText(node) ==
    LET t0 == IF ~Truthy(node, "bold") /\ ~Truthy(node, "italic") /\ ~Truthy(node, "code")
              THEN EscapeText(node.text)
              ELSE node.text
        t1 == Wrap(Truthy(node, "bold"), << "*", "*" >>, t0)
        t2 == Wrap(Truthy(node, "italic"), << "*" >>, t1)
        t3 == Wrap(Truthy(node, "code"), << BT >>, t2)
        t4 == Wrap(Truthy(node, "strikethrough"), << "~", "~" >>, t3)
    IN  Wrap(Truthy(node, "underline"), << "_" >>, t4)

\* bug variant: center and right exchanged
AlignMarker_Swapped(alignments, index) ==
    LET align == IF index <= Len(alignments) THEN alignments[index] ELSE "undefined"
    IN  IF align = "right" THEN << ":", "-", "-", "-", ":" >>
        ELSE IF align = "center" THEN << "-", "-", "-", ":" >>
        ELSE << "-", "-", "-" >>

\* the marker of column index (1-based here) in the separator row
AlignMarker(alignments, index) ==
    LET align == IF index <= Len(alignments) THEN alignments[index] ELSE "undefined"
    IN  IF align = "center" THEN << ":", "-", "-", "-", ":" >>
        ELSE IF align = "right" THEN << "-", "-", "-", ":" >>
        ELSE << "-", "-", "-" >>

\* "| " + cells.join(" | ") + " |"
PipeRow(cells) == << "|", " " >> \o Join(cells, << " ", "|", " " >>) \o << " ", "|" >>

ChildrenOrNone(node) == IF "children" \in DOMAIN node THEN node.children ELSE << >>

\* bug variant: a nested list is rendered into the running content where it
\* stands among the children
ItemStep_Interleaved(acc, child, rendered, ordered) ==
    IF TypeOf(child) \in {"ul", "ol"}
    THEN [acc EXCEPT !.content = @ \o << NL >> \o rendered]
    ELSE [acc EXCEPT !.content = @ \o rendered]

\* lines 133-152: one child of a list item added to content or nestedLists
ItemStep(acc, child, rendered, ordered) ==
    IF TypeOf(child) \in {"ul", "ol"}
    THEN [acc EXCEPT !.nestedLists = Append(@, rendered)]
    ELSE IF TypeOf(child) \in {"code_block", "blockquote"}
    THEN LET blockIndent == Repeat(<< " " >>, IF ordered THEN 3 ELSE 2)
             lines == SplitLines(rendered)
         IN  [acc EXCEPT !.content =
                @ \o << NL >> \o Join([i \in 1..Len(lines) |-> blockIndent \o lines[i]],
                                     << NL >>)]
    ELSE [acc EXCEPT !.content = @ \o rendered]

\* line 134: the depth handed to a nested list
NestedDepth(depth) == depth + 1

\* bug variant: the children of an unknown element are joined with a space
DefaultBranch_Spaced(rendered) == Join(rendered, << " " >>)

\* lines 102-103: the default branch, children.map(serializeNode).join("")
DefaultBranch(rendered) == Concat(rendered)

RECURSIVE serializeNode(_, _)
RECURSIVE serializeChildren(_)
RECURSIVE serializeListItem(_, _, _, _)
RECURSIVE serializeTable(_)
RECURSIVE ItemLoop(_, _, _, _, _)

serializeChildren(children) ==
    Concat([i \in 1..Len(children) |-> serializeNode(children[i], 0)])

\* the loop of lines 130-153 from child i on
ItemLoop(children, i, acc, ordered, depth) ==
    IF i > Len(children) THEN acc
    ELSE LET child == children[i]
             rendered == IF TypeOf(child) \in {"ul", "ol"}
                         THEN serializeNode(child, NestedDepth(depth))
                         ELSE serializeNode(child, depth)
         IN  ItemLoop(children, i + 1, ItemStep(acc, child, rendered, ordered),
                      ordered, depth)

\* bug variant: an item without a checked field is given the empty checkbox
CheckboxPrefix_AbsentIsFalse(node) ==
    IF "checked" \in DOMAIN node /\ node.checked = "true"
    THEN << "[", "x", "]", " " >>
    ELSE << "[", " ", "]", " " >>

\* lines 120-123: the task list prefix of an item
CheckboxPrefix(node) ==
    IF "checked" \in DOMAIN node /\ node.checked \in {"true", "false"}
    THEN IF node.checked = "true"
         THEN << "[", "x", "]", " " >>
         ELSE << "[", " ", "]", " " >>
    ELSE << >>

serializeListItem(node, ordered, depth, index) ==
    LET marker == IF ordered THEN Digits(index) \o << "." >> ELSE << "-" >>
        baseIndent == Repeat(<< " ", " " >>, depth)
        prefix == CheckboxPrefix(node)
        acc == ItemLoop(ChildrenOrNone(node), 1,
                        [content |-> << >>, nestedLists |-> << >>], ordered, depth)
        result == baseIndent \o marker \o << " " >> \o prefix \o acc.content
    IN  IF Len(acc.nestedLists) > 0
        THEN result \o << NL >> \o Join(acc.nestedLists, << NL >>)
        ELSE result

serializeTable(element) ==
    LET rows == ChildrenOrNone(element)
        alignments == IF "align" \in DOMAIN element THEN element.align ELSE << >>
        RowLines(i) ==
            LET cells == ChildrenOrNone(rows[i])
                line == PipeRow([c \in 1..Len(cells) |->
                                    serializeChildren(ChildrenOrNone(cells[c]))])
            IN  IF i = 1
                THEN << line,
                        PipeRow([c \in 1..Len(cells) |-> AlignMarker(alignments, c)]) >>
                ELSE << line >>
    IN  IF Len(rows) = 0 THEN << >>
        ELSE Join([k \in 1..Len(rows) |-> Join(RowLines(k), << NL >>)], << NL >>)

serializeNode(node, listDepth) ==
    IF "text" \in DOMAIN node THEN serializeText(node)
    ELSE
    LET children == ChildrenOrNone(node)
        type == TypeOf(node)
    IN  CASE type = "h1" -> << "#", " " >> \o serializeChildren(children)
          [] type = "h2" -> << "#", "#", " " >> \o serializeChildren(children)
          [] type = "h3" -> << "#", "#", "#", " " >> \o serializeChildren(children)
          [] type = "h4" -> << "#", "#", "#", "#", " " >> \o serializeChildren(children)
          [] type = "h5" -> << "#", "#", "#", "#", "#", " " >> \o serializeChildren(children)
          [] type = "h6" ->
                << "#", "#", "#", "#", "#", "#", " " >> \o serializeChildren(children)
          [] type = "p" -> serializeChildren(children)
          [] type = "blockquote" ->
                LET lines == SplitLines(serializeChildren(children))
                IN  Join([i \in 1..Len(lines) |-> << ">", " " >> \o lines[i]], << NL >>)
          [] type = "ul" ->
                Join([i \in 1..Len(children) |->
                        serializeListItem(children[i], FALSE, listDepth, i)], << NL >>)
          [] type = "ol" ->
                Join([i \in 1..Len(children) |->
                        serializeListItem(children[i], TRUE, listDepth, i)], << NL >>)
          [] type \in {"li", "lic"} -> serializeChildren(children)
          [] type = "code_block" ->
                << BT, BT, BT >> \o StringOr(node, "lang") \o << NL >>
                \o Join([i \in 1..Len(children) |-> serializeNode(children[i], 0)], << NL >>)
                \o << NL, BT, BT, BT >>
          [] type = "code_line" -> serializeChildren(children)
          [] type = "hr" -> << "-", "-", "-" >>
          [] type = "a" ->
                << "[" >> \o serializeChildren(children) \o << "]", "(" >>
                \o StringOr(node, "url") \o << ")" >>
          [] type = "img" ->
                LET captionText ==
                        IF "caption" \in DOMAIN node /\ Len(node.caption) > 0
                           /\ "text" \in DOMAIN node.caption[1]
                        THEN node.caption[1].text ELSE << >>
                    alt == IF captionText # << >> THEN captionText
                           ELSE serializeChildren(children)
                IN  << "!", "[" >> \o alt \o << "]", "(" >> \o StringOr(node, "url") \o << ")" >>
          [] type = "table" -> serializeTable(node)
          [] OTHER -> DefaultBranch([i \in 1..Len(children) |-> serializeNode(children[i], 0)])

serializeToMarkdown(docNodes) ==
    Join([i \in 1..Len(docNodes) |-> serializeNode(docNodes[i], 0)], << NL, NL >>)

-----------------------------------------------------------------------------
(* The trees handed to the serializer *)

Chars == {"a", "*", "_", "[", "]", BS}

TextLeaves ==
    { [text |-> t, bold |-> b, italic |-> i, code |-> c, strikethrough |-> s,
       underline |-> u] :
        t \in SeqsUpTo(Chars, MaxText), b \in BOOLEAN, i \in BOOLEAN, c \in BOOLEAN,
        s \in BOOLEAN, u \in BOOLEAN }

\* a paragraph holding one text leaf
LeafDocs == { << [type |-> "p", children |-> << l >>] >> : l \in TextLeaves }

CodeLeaves ==
    { [text |-> << "a" >>],
      [text |-> << "a", "_", "b" >>],
      [text |-> << "*" >>],
      [text |-> << "a" >>, bold |-> TRUE] }

CodeLines == { [type |-> "code_line", children |-> << l >>] : l \in CodeLeaves }

CodeDocs ==
    { << [type |-> "code_block", children |-> c] >> :
        c \in NonEmptySeqsUpTo(CodeLines, MaxLines) }
    \cup
    { << [type |-> "code_block", lang |-> << "j", "s" >>, children |-> c] >> :
        c \in NonEmptySeqsUpTo(CodeLines, MaxLines) }

AlignTags == {"left", "center", "right", "null"}

TableCell(t) == [type |-> "td", children |-> << [text |-> << t >>] >>]
TableRow(t, cols) == [type |-> "tr", children |-> [c \in 1..cols |-> TableCell(t)]]
TableRows(rows, cols) ==
    [r \in 1..rows |-> IF r = 1 THEN TableRow("h", cols) ELSE TableRow("d", cols)]

TableDocs ==
    { << [type |-> "table", children |-> TableRows(r, c)] >> :
        r \in 0..MaxRows, c \in 0..MaxCols }
    \cup
    { << [type |-> "table", align |-> al, children |-> TableRows(r, c)] >> :
        r \in 0..MaxRows, c \in 0..MaxCols, al \in SeqsUpTo(AlignTags, MaxCols) }

PlainItem == [type |-> "li", children |-> << [text |-> << "z" >>] >>]
ItemContent == [type |-> "lic", children |-> << [text |-> << "a" >>] >>]
ItemMore == [text |-> << "b" >>]

\* lists nested up to d levels below the top list; an item holds its own
\* content and a nested list in every order
RECURSIVE ListsOfDepth(_)
ListsOfDepth(d) ==
    LET items ==
            { [type |-> "li", children |-> << ItemContent >>] }
            \cup
            ( IF d = 0 THEN {}
              ELSE UNION { { [type |-> "li", children |-> << ItemContent, l >>],
                             [type |-> "li", children |-> << l, ItemContent >>],
                             [type |-> "li", children |-> << ItemContent, l, ItemMore >>] } :
                           l \in ListsOfDepth(d - 1) } )
    IN  UNION { { [type |-> t, children |-> << i >>],
                  [type |-> t, children |-> << i, PlainItem >>] } :
                t \in {"ul", "ol"}, i \in items }

ListDocs == { << l >> : l \in ListsOfDepth(MaxDepth) }

\* the children of a list item of an enriched tree: its text, a text that
\* looks like a checkbox, and its text with a nested task list
TaskItemChildren ==
    { << ItemContent >>,
      << [text |-> << "[" >>] >>,
      << ItemContent,
         [type |-> "ul",
          children |-> << [type |-> "li", checked |-> "true",
                           children |-> << ItemContent >>] >>] >> }

\* list items as enrichment leaves them: checked true, checked false, or no
\* checked field
TaskItems ==
    { [type |-> "li", children |-> c] : c \in TaskItemChildren }
    \cup
    { [type |-> "li", checked |-> b, children |-> c] :
        b \in {"true", "false"}, c \in TaskItemChildren }

TaskDocs ==
    { << [type |-> t, children |-> c] >> :
        t \in {"ul", "ol"}, c \in NonEmptySeqsUpTo(TaskItems, MaxItems) }

\* types the switch of serializeNode has no case for
UnknownTypes == {"callout", "mention"}

\* what an element of an unknown type may hold inline
UnknownKids ==
    { [text |-> << "a" >>],
      [text |-> << "b" >>, bold |-> TRUE],
      [type |-> "a", url |-> << "x" >>, children |-> << [text |-> << "k" >>] >>],
      [type |-> "mention", children |-> << [text |-> << "c" >>] >>] }

\* and what it may hold as blocks
UnknownBlockKids ==
    { << [type |-> "p", children |-> << [text |-> << "a" >>] >>],
         [type |-> "p", children |-> << [text |-> << "b" >>] >>] >>,
      << [type |-> "ul", children |-> << PlainItem, PlainItem >>],
         [type |-> "h1", children |-> << [text |-> << "h" >>] >>] >>,
      << [type |-> "blockquote", children |-> << [text |-> << "q" >>] >>] >> }

\* an element of an unknown type at the top level, in a paragraph, in a
\* blockquote, in a list item and in another unknown element
UnknownDocs ==
    UNION { LET X == [type |-> "callout", children |-> kids]
            IN  { << X >>,
                  << [type |-> "p", children |-> << X, [text |-> << "z" >>] >>] >>,
                  << [type |-> "blockquote", children |-> << X >>] >>,
                  << [type |-> "ul", children |-> << [type |-> "li", children |-> << X >>] >>] >>,
                  << [type |-> "mention", children |-> << X >>] >> } :
            kids \in NonEmptySeqsUpTo(UnknownKids, MaxItems) }
    \cup
    { << [type |-> "callout", children |-> kids] >> : kids \in UnknownBlockKids }

SerializerInputs ==
    LeafDocs \cup CodeDocs \cup TableDocs \cup ListDocs \cup TaskDocs \cup UnknownDocs

-----------------------------------------------------------------------------
(* src/converter.ts: convertPlateJSONToMarkdown *)

SerInit ==
    /\ pc = "serialize"
    /\ nodes \in SerializerInputs
    /\ markdown = << >>
    /\ markdownContent = "paragraph"
    /\ plateJSON = << >>
    /\ plate0 = << >>
    /\ mdast = NoRoot
    /\ mdast0 = NoRoot
    /\ definitions = EmptyMap
    /\ stack = << >>
    /\ warned = FALSE
    /\ thrown = FALSE
    /\ log = << >>

convertPlateJSONToMarkdown ==
    /\ pc = "serialize"
    /\ markdown' = serializeToMarkdown(nodes)
    /\ pc' = "serialized"
    /\ UNCHANGED << markdownContent, plateJSON, mdast, definitions, stack, warned,
                    thrown, plate0, mdast0, log, nodes >>

SerNext == convertPlateJSONToMarkdown

SerSpec == SerInit /\ [][SerNext]_vars

-----------------------------------------------------------------------------
(* Properties of the enrichment (specification Spec) *)

Events == { log[i] : i \in DOMAIN log }
EventNode(e) == SeqAt(plateJSON, e.pp)[e.p + 1]
IsLiMatch(e) ==
    e.kind = "match" /\ TypeOf(e.before) = "li" /\ TypeOf(e.mNode) = "listItem"
IsTaskItem(m) == "checked" \in DOMAIN m /\ m.checked \in {"true", "false"}

\* C1: a tree li matched with an AST listItem has checked = b from then on
\* when the listItem's checked is the boolean b, and keeps its checked field
\* as it was (absent stays absent) when the listItem's checked is absent or
\* null.
C1_TaskItemChecked ==
    \A e \in Events :
        IsLiMatch(e) =>
            IF IsTaskItem(e.mNode)
            THEN /\ "checked" \in DOMAIN EventNode(e)
                 /\ EventNode(e).checked = e.mNode.checked
            ELSE /\ ("checked" \in DOMAIN EventNode(e)) = ("checked" \in DOMAIN e.before)
                 /\ "checked" \in DOMAIN e.before =>
                        EventNode(e).checked = e.before.checked

\* C1 witness: the walk has returned; one li without checked was matched with
\* a listItem checked:true and now carries "true", another was matched with a
\* listItem that is no task item and still has no checked field.
C1_Witness ==
    /\ pc = "done" /\ ~thrown
    /\ \E e \in Events :
          /\ IsLiMatch(e) /\ IsTaskItem(e.mNode) /\ e.mNode.checked = "true"
          /\ ~("checked" \in DOMAIN e.before)
          /\ EventNode(e).checked = "true"
    /\ \E e \in Events :
          /\ IsLiMatch(e) /\ ~IsTaskItem(e.mNode)
          /\ ~("checked" \in DOMAIN e.before)
          /\ ~("checked" \in DOMAIN EventNode(e))

IsInsert(e) == e.kind = "insert"

\* the url of a reconstructed link: the definition's url, '' when unresolved
ResolvedUrl(L) ==
    IF L.identifier \in DOMAIN definitions THEN definitions[L.identifier] ELSE << >>

ChildrenOf(L) == IF "children" \in DOMAIN L THEN L.children ELSE << >>

\* the text children of L as plain leaves, other children left out
TextChildrenOnly(L) ==
    LET texts == SelectSeq(ChildrenOf(L), LAMBDA c : TypeOf(c) = "text")
    IN  [i \in 1..Len(texts) |-> [text |-> texts[i].value]]

\* one leaf per child of L: its value for a text child, '' for any other;
\* a single empty leaf when L has no children array
LeafPerChild(L) ==
    IF "children" \in DOMAIN L
    THEN [i \in 1..Len(L.children) |->
            IF TypeOf(L.children[i]) = "text"
            THEN [text |-> L.children[i].value]
            ELSE [text |-> << >>]]
    ELSE << [text |-> << >>] >>

\* the inserted node sits behind the tree nodes handled for earlier AST
\* siblings and before those handled for later ones, and the tree sequence
\* has grown by one node for each linkReference inserted at this level
PlacedInSequence(i) ==
    LET e == log[i]
    IN  /\ \A j \in DOMAIN log :
              log[j].pp = e.pp =>
                  /\ j < i => log[j].p < e.p
                  /\ j > i => log[j].p > e.p
        /\ Len(SeqAt(plateJSON, e.pp)) =
              e.len + Cardinality({ j \in i..Len(log) :
                                      IsInsert(log[j]) /\ log[j].pp = e.pp })

Metadata == {"checked", "align"}

RECURSIVE NodeKept(_, _)
RECURSIVE Embeds(_, _)
\* the node o is still there as n: same type, text, url and other fields,
\* and its children are kept in turn
NodeKept(o, n) ==
    /\ DOMAIN o \ Metadata \subseteq DOMAIN n
    /\ DOMAIN n \ Metadata \subseteq DOMAIN o
    /\ \A f \in DOMAIN o \ (Metadata \cup {"children"}) : n[f] = o[f]
    /\ "children" \in DOMAIN o => Embeds(o.children, n.children)

\* every node of the sequence old is kept in new, in the same order, and
\* the nodes of new in between are a nodes
Embeds(old, new) ==
    IF old = << >> THEN \A i \in DOMAIN new : TypeOf(new[i]) = "a"
    ELSE IF new = << >> THEN FALSE
    ELSE \/ NodeKept(Head(old), Head(new)) /\ Embeds(Tail(old), Tail(new))
         \/ TypeOf(Head(new)) = "a" /\ Embeds(old, Tail(new))

\* C3: at every point of the walk and after it, the nodes the deserializer
\* produced are all present at every sibling level, in their order, with
\* type, text, url and children structure unchanged; only checked and align
\* are set and only a nodes are inserted.
C3_TreePreserved == Embeds(plate0, plateJSON)

\* C3 witness: the walk has returned after inserting a node, setting
\* metadata and skipping AST nodes that matched nothing.
C3_Witness ==
    /\ pc = "done" /\ ~thrown
    /\ \E e \in Events : IsInsert(e)
    /\ \E e \in Events : e.kind = "match" /\ EventNode(e) # e.before
                            /\ TypeOf(e.before) \in {"li", "table"}
    /\ plateJSON # plate0

\* C4: after enrich, the AST root sequence and every AST node's children
\* sequence are as processor.parse returned them.
C4_AstReadOnly == pc \in {"enrich", "done"} => mdast = mdast0

\* C5: when the parse, the scan or the walk throws, the conversion warns
\* and returns normally the deserializer's tree with all its nodes in order.
C5_FailureContained ==
    thrown => /\ pc = "done"
              /\ warned
              /\ Embeds(plate0, plateJSON)

\* C5 witness: the walk threw after it had already changed the tree, and
\* the conversion has returned.
C5_Witness ==
    /\ thrown /\ pc = "done" /\ warned
    /\ plateJSON # plate0
    /\ log # << >>

-----------------------------------------------------------------------------
(* Properties of the serializer (specification SerSpec) *)

Serialized == pc = "serialized"
IsLeafDoc == nodes \in LeafDocs
TheLeaf == nodes[1].children[1]
Marked(l) == l.bold \/ l.italic \/ l.code

\* out is text with one backslash put before each of * _ [ ] and every
\* other character as it is
RECURSIVE IsEscapeOf(_, _)
IsEscapeOf(text, out) ==
    IF text = << >> THEN out = << >>
    ELSE IF Head(text) \in {"*", "_", "[", "]"}
    THEN /\ Len(out) >= 2
         /\ out[1] = BS
         /\ out[2] = Head(text)
         /\ IsEscapeOf(Tail(text), SubSeq(out, 3, Len(out)))
    ELSE /\ Len(out) >= 1
         /\ out[1] = Head(text)
         /\ IsEscapeOf(Tail(text), Tail(out))

\* the number of wrapper characters on each side of a leaf's text
OuterWidth(l) == (IF l.strikethrough THEN 2 ELSE 0) + (IF l.underline THEN 1 ELSE 0)
InnerWidth(l) ==
    (IF l.bold THEN 2 ELSE 0) + (IF l.italic THEN 1 ELSE 0) + (IF l.code THEN 1 ELSE 0)
WrapperChars == {"*", "_", "~", BT}

\* C6: a leaf with none of bold, italic, code set is emitted with each of
\* * _ [ ] preceded by one backslash and every other character unchanged
\* (inside the strikethrough and underline wrappers, if any); a leaf with
\* bold, italic or code set is emitted with its text as it is inside the
\* mark wrappers.
C6_Escaping ==
    (Serialized /\ IsLeafDoc) =>
        LET l == TheLeaf
            w == OuterWidth(l) + InnerWidth(l)
            body == SubSeq(markdown, w + 1, Len(markdown) - w)
        IN  /\ Len(markdown) >= 2 * w
            /\ \A i \in 1..w : /\ markdown[i] \in WrapperChars
                               /\ markdown[Len(markdown) + 1 - i] \in WrapperChars
            /\ IF Marked(l) THEN body = l.text ELSE IsEscapeOf(l.text, body)

\* C6 witness: a struck-through leaf "[a" without bold, italic and code has
\* been serialized to ~~\[a~~.
C6_Witness ==
    /\ Serialized /\ IsLeafDoc
    /\ TheLeaf.text = << "[", "a" >>
    /\ ~Marked(TheLeaf) /\ TheLeaf.strikethrough /\ ~TheLeaf.underline
    /\ markdown = << "~", "~", BS, "[", "a", "~", "~" >>

\* the text of a leaf as C6 has it emitted
RECURSIVE Escaped(_)
Escaped(text) ==
    IF text = << >> THEN << >>
    ELSE (IF Head(text) \in {"*", "_", "[", "]"} THEN << BS, Head(text) >>
          ELSE << Head(text) >>) \o Escaped(Tail(text))

Around(on, w, str) == IF on THEN w \o str \o w ELSE str

\* C7: the wrappers nest in the order code, bold, italic, strikethrough,
\* underline: code is the innermost and underline the outermost.
C7_MarkOrder ==
    (Serialized /\ IsLeafDoc) =>
        LET l == TheLeaf
            body == IF Marked(l) THEN l.text ELSE Escaped(l.text)
        IN  markdown =
                Around(l.underline, << "_" >>,
                  Around(l.strikethrough, << "~", "~" >>,
                    Around(l.italic, << "*" >>,
                      Around(l.bold, << "*", "*" >>,
                        Around(l.code, << BT >>, body)))))

IsCodeDoc == nodes \in CodeDocs

\* the texts of the leaves of a code_line, one after the other
CodeLineText(line) ==
    Concat([i \in 1..Len(line.children) |-> line.children[i].text])

\* C8: the body between the fences is the code_line texts joined with line
\* breaks, with no backslash and no mark wrapper added.
C8_CodeVerbatim ==
    (Serialized /\ IsCodeDoc) =>
        LET block == nodes[1]
            lang == IF "lang" \in DOMAIN block THEN block.lang ELSE << >>
        IN  markdown =
                << BT, BT, BT >> \o lang \o << NL >>
                \o Join([i \in 1..Len(block.children) |-> CodeLineText(block.children[i])],
                        << NL >>)
                \o << NL, BT, BT, BT >>

IsTableDoc == nodes \in TableDocs

\* the separator marker C9 gives column i
ClaimedMarker(table, i) ==
    IF "align" \in DOMAIN table /\ i <= Len(table.align) /\ table.align[i] = "center"
    THEN << ":", "-", "-", "-", ":" >>
    ELSE IF "align" \in DOMAIN table /\ i <= Len(table.align) /\ table.align[i] = "right"
    THEN << "-", "-", "-", ":" >>
    ELSE << "-", "-", "-" >>

\* C9: a table with at least one row is serialized to one line per row plus
\* one separator line, the second line, which holds one marker per header
\* cell (:---: for center, ---: for right, --- otherwise) joined with " | "
\* between "| " and " |".
C9_SeparatorRow ==
    (Serialized /\ IsTableDoc /\ Len(nodes[1].children) >= 1) =>
        LET table == nodes[1]
            header == table.children[1]
            lines == SplitLines(markdown)
        IN  /\ Len(lines) = Len(table.children) + 1
            /\ lines[2] =
                  << "|", " " >>
                  \o Join([i \in 1..Len(header.children) |-> ClaimedMarker(table, i)],
                          << " ", "|", " " >>)
                  \o << " ", "|" >>
            /\ \A k \in 1..Len(lines) : k # 2 => "-" \notin { lines[k][j] : j \in DOMAIN lines[k] }

\* C9 witness: a table of two rows and three columns with align left,
\* center, right has the separator row | --- | :---: | ---: |.
C9_Witness ==
    /\ Serialized /\ IsTableDoc
    /\ Len(nodes[1].children) = 2
    /\ "align" \in DOMAIN nodes[1]
    /\ nodes[1].align = << "left", "center", "right" >>
    /\ Len(nodes[1].children[1].children) = 3
    /\ SplitLines(markdown)[2] =
          << "|", " ", "-", "-", "-", " ", "|", " ", ":", "-", "-", "-", ":", " ", "|", " ",
             "-", "-", "-", ":", " ", "|" >>

IsListDoc == nodes \in ListDocs
IsList(n) == TypeOf(n) \in {"ul", "ol"}

\* the characters of a node that is no list, in document order
RECURSIVE PlainText(_)
PlainText(n) ==
    IF "text" \in DOMAIN n THEN n.text
    ELSE Concat([i \in 1..Len(n.children) |-> PlainText(n.children[i])])

Spaces(n) == [i \in 1..n |-> " "]

\* the lines C10 gives a list whose items are at depth d: for each item one
\* line with 2*d spaces, the marker and the item's own content, followed by
\* the lines of its nested lists at depth d + 1
RECURSIVE ClaimedListLines(_, _)
ClaimedListLines(list, d) ==
    LET ItemLines(k) ==
            LET item == list.children[k]
                own == SelectSeq(item.children, LAMBDA c : ~IsList(c))
                nested == SelectSeq(item.children, IsList)
                mark == IF list.type = "ol" THEN << ToString(k), "." >> ELSE << "-" >>
            IN  << Spaces(2 * d) \o mark \o << " " >>
                   \o Concat([i \in 1..Len(own) |-> PlainText(own[i])]) >>
                \o Concat([i \in 1..Len(nested) |-> ClaimedListLines(nested[i], d + 1)])
    IN  Concat([k \in 1..Len(list.children) |-> ItemLines(k)])

\* C10: every list item's own content is on the item's line and the lines
\* of its nested lists follow it, whatever the order of its children; the
\* items of a list nested directly in an item at depth d start with
\* 2*(d+1) spaces.
C10_NestedAfterContent ==
    (Serialized /\ IsListDoc) =>
        SplitLines(markdown) = ClaimedListLines(nodes[1], 0)

\* C10 witness: an item whose nested list stands before its own content,
\* that list holding an item with a nested list of its own, has been
\* serialized; the innermost items start with four spaces.
C10_Witness ==
    /\ Serialized /\ IsListDoc
    /\ LET item == nodes[1].children[1]
       IN  /\ Len(item.children) = 2
           /\ IsList(item.children[1])
           /\ ~IsList(item.children[2])
           /\ \E c \in 1..Len(item.children[1].children[1].children) :
                 IsList(item.children[1].children[1].children[c])
    /\ \E k \in DOMAIN SplitLines(markdown) :
          LET line == SplitLines(markdown)[k]
          IN  Len(line) > 4 /\ SubSeq(line, 1, 4) = Spaces(4) /\ line[5] # " "

IsTaskDoc == nodes \in TaskDocs

\* the checkbox C11 gives an item
ClaimedBox(item) ==
    IF "checked" \in DOMAIN item
    THEN IF item.checked = "true" THEN << "[", "x", "]", " " >>
         ELSE << "[", " ", "]", " " >>
    ELSE << >>

\* the lines of a list at depth d with the checkbox of each item directly
\* after the marker and its space and before the item's content
RECURSIVE ClaimedTaskLines(_, _)
ClaimedTaskLines(list, d) ==
    LET ItemLines(k) ==
            LET item == list.children[k]
                own == SelectSeq(item.children, LAMBDA c : ~IsList(c))
                nested == SelectSeq(item.children, IsList)
                mark == IF list.type = "ol" THEN << ToString(k), "." >> ELSE << "-" >>
            IN  << Spaces(2 * d) \o mark \o << " " >> \o ClaimedBox(item)
                   \o Concat([i \in 1..Len(own) |-> serializeNode(own[i], d)]) >>
                \o Concat([i \in 1..Len(nested) |-> ClaimedTaskLines(nested[i], d + 1)])
    IN  Concat([k \in 1..Len(list.children) |-> ItemLines(k)])

\* C11: every item of a ul or ol, at any depth, is emitted as its marker,
\* one space, then [x] and a space when checked is true, [ ] and a space
\* when checked is false and nothing when it has no checked field, then its
\* content.
C11_CheckboxPrefix ==
    (Serialized /\ IsTaskDoc) =>
        SplitLines(markdown) = ClaimedTaskLines(nodes[1], 0)

\* C11 witness: a list of an item checked true and an item without a checked
\* field whose text is an opening bracket has been serialized to the lines
\* - [x] a and - \[ .
C11_Witness ==
    /\ Serialized /\ IsTaskDoc
    /\ nodes[1].type = "ul"
    /\ Len(nodes[1].children) = 2
    /\ "checked" \in DOMAIN nodes[1].children[1]
    /\ nodes[1].children[1].checked = "true"
    /\ ~("checked" \in DOMAIN nodes[1].children[2])
    /\ SplitLines(markdown) =
          << << "-", " ", "[", "x", "]", " ", "a" >>, << "-", " ", BS, "[" >> >>

IsUnknownDoc == nodes \in UnknownDocs

\* a sequence of nodes with every element of an unknown type, at any depth,
\* replaced by its children
RECURSIVE Spliced(_)
Spliced(seq) ==
    Concat([i \in 1..Len(seq) |->
              IF "text" \in DOMAIN seq[i] THEN << seq[i] >>
              ELSE IF seq[i].type \in UnknownTypes THEN Spliced(seq[i].children)
              ELSE << [seq[i] EXCEPT !.children = Spliced(@)] >>])

\* C12: a tree with elements of unknown types is serialized, and an element
\* of an unknown type contributes the concatenation of its serialized
\* children and nothing else: at the top level the output is the outputs of
\* its children put together, below the top level the output is that of the
\* tree with the element replaced by its children.
C12_UnknownTypeFallback ==
    (Serialized /\ IsUnknownDoc) =>
        IF nodes[1].type \in UnknownTypes
        THEN markdown =
                Concat([i \in 1..Len(nodes[1].children) |->
                          serializeToMarkdown(<< nodes[1].children[i] >>)])
        ELSE markdown =
                serializeToMarkdown(<< [nodes[1] EXCEPT !.children = Spliced(@)] >>)

\* C12 witness: a blockquote holding a callout that holds a mention and a
\* link has been serialized to > c[k](x).
C12_Witness ==
    /\ Serialized /\ IsUnknownDoc
    /\ nodes[1].type = "blockquote"
    /\ nodes[1].children[1].type = "callout"
    /\ Len(nodes[1].children[1].children) = 2
    /\ TypeOf(nodes[1].children[1].children[1]) = "mention"
    /\ markdown = << ">", " ", "c", "[", "k", "]", "(", "x", ")" >>

-----------------------------------------------------------------------------
(* Properties of the match rule and of the walk (specification Spec) *)

\* a url with absent and empty taken as the same
NormalUrl(u) == IF u = Undefined THEN << >> ELSE u

\* the tree node at the cursor is a link and the AST node at the cursor is a
\* link or a linkReference
ComparingLinks ==
    /\ Comparing
    /\ TypeOf(pNode) = "a"
    /\ TypeOf(mNode) \in {"link", "linkReference"}

\* the urls C13 compares are equal
ClaimedSameUrl ==
    NormalUrl(Get(pNode, "url")) =
        NormalUrl(IF mNode.type = "linkReference"
                  THEN MapGet(definitions, Get(mNode, "identifier"))
                  ELSE Get(mNode, "url"))

\* the step is the match branch of the walk
MatchStep == Len(log') = Len(log) + 1 /\ log'[Len(log')].kind = "match"

\* C13: when the walk compares a tree a node with an AST link or
\* linkReference, it takes the match branch exactly when the tree url equals
\* the AST url (for a linkReference the url its identifier has in the
\* definitions map), an empty and an absent url counting as equal.
C13_LinkUrlMatch ==
    [][(ComparingLinks /\ pc' = "enrich") => (MatchStep <=> ClaimedSameUrl)]_vars

Enriched == pc = "done" /\ ~thrown

\* the explicit pre-pass: every strong, emphasis and delete node of a
\* sequence replaced by its children, recursively
RECURSIVE Prepass(_)
Prepass(seq) ==
    Concat([i \in 1..Len(seq) |->
              IF IsWrapper(seq[i])
              THEN IF "children" \in DOMAIN seq[i] THEN Prepass(seq[i].children) ELSE << >>
              ELSE IF "children" \in DOMAIN seq[i]
              THEN << [seq[i] EXCEPT !.children = Prepass(@)] >>
              ELSE << seq[i] >>])

\* C14: the tree the walk leaves behind equals the tree the same walk leaves
\* behind when it is run on the AST with every inline style wrapper replaced
\* by its children beforehand.
C14_WrappersTransparent ==
    Enriched =>
        plateJSON = enrichPlateJSON(plate0, Prepass(mdast0.children), definitions)

\* the walk is at an AST node that it skips: a definition or front-matter
\* node, a node after the tree cursor has run out that is no linkReference,
\* or a node that does not match the tree node at the cursor and is no
\* linkReference
AtSkippedNode ==
    /\ InLoop
    /\ \/ OutOfPlate /\ TypeOf(mNode) # "linkReference"
       \/ ~OutOfPlate /\ ~IsWrapper(mNode) /\ IsMetadata(mNode)
       \/ /\ Comparing
          /\ ~checkMatch(pNode, mNode, definitions)
          /\ TypeOf(mNode) # "linkReference"

\* C15: a step of the walk at a skipped AST node advances the AST cursor by
\* one and leaves the tree cursor, the tree and the activation as they are,
\* so after a mismatch the tree node at the cursor is the same one.
C15_SkipAdvancesAstOnly ==
    [][(AtSkippedNode /\ pc' = "enrich") =>
          /\ Len(stack') = Len(stack)
          /\ stack'[Len(stack)].mIndex = Top.mIndex + 1
          /\ stack'[Len(stack)].pIndex = Top.pIndex
          /\ stack'[Len(stack)].pp = Top.pp
          /\ plateJSON' = plateJSON]_vars

\* C15 witness: inside a paragraph the tree link was compared with an AST
\* text, which was skipped, and is now compared with the AST link behind it;
\* at the top level the definition behind the paragraph is still to come.
C15_Witness ==
    /\ pc = "enrich" /\ Len(stack) = 2
    /\ Top.pIndex = 0 /\ Top.mIndex = 1
    /\ Len(plateNodes) = 1 /\ Len(mdNodes) = 2
    /\ TypeOf(plateNodes[1]) = "a"
    /\ TypeOf(mdNodes[1]) = "text"
    /\ TypeOf(mdNodes[2]) = "link"
    /\ plateJSON = plate0
    /\ log = << log[1] >>

\* the tree cursor of every activation is within its tree sequence
CursorsInRange ==
    \A i \in DOMAIN stack : stack[i].pIndex <= Len(SeqAt(plateJSON, stack[i].pp))

\* one iteration of the loop: the AST cursor of the activation advances, or
\* the wrapper at the cursor is replaced by its children, or the recursive
\* call of line 126 starts, after whose return the cursor advances
IterationProgress ==
    \/ /\ Len(stack') = Len(stack)
       /\ stack'[Len(stack)].mIndex = Top.mIndex + 1
    \/ /\ stack' = stack
       /\ IsWrapper(mNode) /\ "children" \in DOMAIN mNode
       /\ SeqAt(mdast'.children, Top.mp) =
             SubSeq(mdNodes, 1, Top.mIndex) \o mNode.children
             \o SubSeq(mdNodes, Top.mIndex + 2, Len(mdNodes))
    \/ /\ Len(stack') = Len(stack) + 1
       /\ SubSeq(stack', 1, Len(stack)) = stack
       /\ stack'[Len(stack')].mIndex = 0

\* the return of a recursive call is followed by the increments of its caller
ReturnProgress ==
    /\ Len(stack') = Len(stack) - 1
    /\ stack'[Len(stack')].mIndex = stack[Len(stack')].mIndex + 1

\* no activation's tree cursor decreases
CursorsNeverDecrease ==
    \A i \in DOMAIN stack : i \in DOMAIN stack' => stack'[i].pIndex >= stack[i].pIndex

\* C16: the walk, once started, terminates; every loop iteration advances the AST cursor
\* or replaces one wrapper by its children, and the tree cursor never
\* decreases and never exceeds the length of the tree sequence.
C16_WalkTerminates ==
    /\ (pc = "enrich") ~> (pc = "done")
    /\ []CursorsInRange
    /\ [][(pc = "enrich" /\ pc' = "enrich") =>
             /\ CursorsNeverDecrease
             /\ IF InLoop THEN IterationProgress ELSE ReturnProgress]_vars

\* C16 witness: the walk has returned without an error after replacing a
\* wrapper with an empty children list and another wrapper by their
\* children and after the tree grew through an insertion.
C16_Witness ==
    /\ Enriched
    /\ Len(mdast0.children) >= 1
    /\ TypeOf(mdast0.children[1]) = "paragraph"
    /\ \E i, j \in DOMAIN mdast0.children[1].children :
          LET a == mdast0.children[1].children[i]
              b == mdast0.children[1].children[j]
          IN  /\ TypeOf(a) = "strong" /\ a.children = << >>
              /\ IsWrapper(b) /\ a # b
    /\ \A i \in DOMAIN mdast.children[1].children :
          ~IsWrapper(mdast.children[1].children[i])
    /\ Len(plateJSON[1].children) > Len(plate0[1].children)

\* the definition nodes of a sequence of AST nodes, at any depth
RECURSIVE DefinitionNodes(_)
DefinitionNodes(seq) ==
    UNION { (IF TypeOf(seq[i]) = "definition" THEN { seq[i] } ELSE {})
            \cup (IF "children" \in DOMAIN seq[i] THEN DefinitionNodes(seq[i].children)
                  ELSE {}) : i \in DOMAIN seq }

\* the url C17 gives the link reconstructed from L
ClaimedUrl(L) ==
    IF \E d \in DefinitionNodes(mdast0.children) : d.identifier = L.identifier
    THEN (CHOOSE d \in DefinitionNodes(mdast0.children) : d.identifier = L.identifier).url
    ELSE << >>

\* C17: from the first step of the walk on, the definitions map holds every
\* definition node of the AST, whatever its depth, and nothing else, and
\* every link reconstructed from a linkReference has the url of the
\* definition of its identifier, wherever that definition stands, and the
\* empty url when there is none.
C17_DefinitionsComplete ==
    (pc = "enrich" \/ Enriched) =>
        /\ \A d \in DefinitionNodes(mdast0.children) :
              /\ d.identifier \in DOMAIN definitions
              /\ definitions[d.identifier] = d.url
        /\ \A k \in DOMAIN definitions :
              \E d \in DefinitionNodes(mdast0.children) : d.identifier = k
        /\ \A e \in Events : IsInsert(e) => EventNode(e).url = ClaimedUrl(e.mNode)

\* C17 witness: a linkReference in a heading was reconstructed with the url
\* of a definition that stands behind it, inside a blockquote.
C17_Witness ==
    /\ Enriched
    /\ Len(mdast0.children) = 2
    /\ TypeOf(mdast0.children[1]) = "heading"
    /\ TypeOf(mdast0.children[2]) = "blockquote"
    /\ TypeOf(mdast0.children[2].children[1]) = "definition"
    /\ \E e \in Events :
          /\ IsInsert(e)
          /\ e.pp = << 1 >>
          /\ EventNode(e).url = mdast0.children[2].children[1].url
          /\ EventNode(e).url # << >>

\* every element node of a sequence of tree nodes, at any depth, has a
\* children sequence that is not empty
RECURSIVE AllNonEmpty(_)
AllNonEmpty(seq) ==
    \A i \in DOMAIN seq :
        "text" \in DOMAIN seq[i]
        \/ /\ "children" \in DOMAIN seq[i]
           /\ seq[i].children # << >>
           /\ AllNonEmpty(seq[i].children)

\* C18: when every element of the deserialized tree has children, every
\* element of the tree has children during and after the walk, the
\* reconstructed links included.
C18_ChildrenNonEmpty ==
    AllNonEmpty(plate0) => AllNonEmpty(plateJSON)

\* C19: every link reconstructed from a linkReference L matches L under
\* the match rule with the same definitions map, and a second run of the
\* walk on the enriched tree, with the AST as parsed and the same
\* definitions map, leaves the tree as it is.
C19_Idempotent ==
    Enriched =>
        /\ \A e \in Events :
              IsInsert(e) => checkMatch(EventNode(e), e.mNode, definitions)
        /\ enrichPlateJSON(plateJSON, mdast0.children, definitions) = plateJSON

=============================================================================
